---- MODULE Spec2Model ----
(***************************************************************************)
(* The two-loop core of matchbox_socket_nostr/src/webrtc_socket/mod.rs:    *)
(* signaling_loop (relay <-> internal peer protocol) and message_loop      *)
(* (handshakes, peer loops, outbound application queues, keep-alive).      *)
(* The Signaller, the Messenger, the relay, the remote peers and the       *)
(* application are the environment: their choices are the \E inputs of the *)
(* actions.                                                                *)
(***************************************************************************)
EXTENDS Integers, Sequences, FiniteSets, TLC

\* ------------------------------------------------------------------ bounds
\* Inputs the environment feeds the two loops in one run: results of
\* Signaller::next_message, PeerSignals pushed by in-flight handshakes,
\* keep-alive timer expiries and packets enqueued by the application.
MaxInputs == 3
\* The same, for the runs of FairSpec (liveness).
MaxLiveInputs == 2

\* ------------------------------------------------------------- identifiers
\* PeerId(nostr_keys.public_key()) of the local node.
Local == 0
Remotes == {1}
PeerIds == {Local} \cup Remotes
\* Positions in peer_messages_out_rx (= positions in channel_configs).
Channels == {0, 1}

VARIABLES
    slState,            \* signaling_loop: "subscribe","assign","running","ok","err"
    relay_sent,         \* frames handed to Signaller::send, in call order
    inputsLeft,         \* inputs the environment may still feed
    requests,           \* the request queue (message loop -> signaling loop)
    sigEnq,             \* history: every PeerRequest::Signal put on the request queue
    slEos,              \* history: requests_receiver.next() has yielded None
    slLast,             \* history: outcome of signaling_loop's latest await on the Signaller or the request queue
    events,             \* the event queue (signaling loop -> message loop)
    evFrom,             \* history: evFrom[k] = pubkey of the relay event that carried events[k] (Local: the loop's own)
    firstEv,            \* history: <<first PeerEvent ever put on the event queue>> or <<>>
    mlState,            \* message_loop: "running","exited","panicked"
    sessions,           \* every handshake future pushed, with its peer loop afterwards
    handshake_signals,  \* PeerId -> index in sessions of the handshake owning the paired receiver, 0 = no entry
    data_channels,      \* PeerId -> index in sessions of the HandshakeResult whose channels are installed, 0 = no entry
    peer_states,        \* everything sent on peer_state_tx, in order
    id_sent,            \* everything published on the identity channel behind id_tx
    outq,               \* per outbound channel: queued (peer, packet)
    outClosed,          \* per outbound channel: all application senders dropped
    submitted,          \* history: submitted[k] = where the application sent packet k
    delivered           \* history: every PeerDataSender::send call, in order

slVars == <<slState, relay_sent, sigEnq, slEos, slLast, firstEv>>
mlVars == <<mlState, sessions, handshake_signals, data_channels, peer_states, id_sent,
            delivered>>
envVars == <<outq, outClosed, submitted>>
vars == <<slState, relay_sent, inputsLeft, requests, sigEnq, slEos, slLast, events, evFrom,
          firstEv,
          mlState, sessions, handshake_signals, data_channels, peer_states,
          id_sent, outq, outClosed, submitted, delivered>>

\* --------------------------------------------------------- message types
\* PeerEvent: IdAssigned(id) | NewPeer(id) | PeerLeft(id) | Signal{sender = id, data}.
PeerEvent(t, id, data) == [t |-> t, id |-> id, data |-> data]
IdAssigned(p) == PeerEvent("IdAssigned", p, 0)
NewPeer(p) == PeerEvent("NewPeer", p, 0)
PeerLeft(p) == PeerEvent("PeerLeft", p, 0)
SignalEvent(p, d) == PeerEvent("Signal", p, d)

\* PeerRequest: Signal{receiver = id, data} | KeepAlive.
SignalRequest(p, d) == [t |-> "Signal", id |-> p, data |-> d]
KeepAliveRequest == [t |-> "KeepAlive", id |-> Local, data |-> 0]

\* The JSON text of an envelope: the enum variant's tag, the names of the
\* fields present under it, and their values.
Json(variant, fields, id, data) ==
    [variant |-> variant, fields |-> fields, id |-> id, data |-> data]

\* serde_json::to_string of a PeerRequest.
RequestToJson(req) ==
    IF req.t = "Signal"
    THEN Json("Signal", {"receiver", "data"}, req.id, req.data)
    ELSE Json("KeepAlive", {}, Local, 0)

\* serde_json::from_str::<PeerRequest>: <<request>> or <<>> on error.
ParsePeerRequest(js) ==
    IF js.variant = "Signal" /\ {"receiver", "data"} \subseteq js.fields
    THEN <<SignalRequest(js.id, js.data)>>
    ELSE IF js.variant = "KeepAlive" THEN <<KeepAliveRequest>>
    ELSE <<>>

\* serde_json::from_str::<PeerEvent>: <<event>> or <<>> on error.
ParsePeerEvent(js) ==
    IF js.variant = "Signal" /\ {"sender", "data"} \subseteq js.fields
    THEN <<SignalEvent(js.id, js.data)>>
    ELSE IF js.variant \in {"IdAssigned", "NewPeer", "PeerLeft"} /\ "id" \in js.fields
    THEN <<PeerEvent(js.variant, js.id, 0)>>
    ELSE <<>>

\* NIP-04: the ciphertext is bound to the ECDH secret of the two key pairs.
Encrypt(sk, pk, plain) == [secret |-> {sk, pk}, plain |-> plain]
\* <<plaintext>> or <<>> when the shared secret does not open the content.
Decrypt(sk, pk, content) ==
    IF content.secret = {sk, pk} THEN <<content.plain>> ELSE <<>>

\* Plaintexts a remote party can put inside a direct message; d is the
\* PeerSignal payload of a Signal envelope.
Plaintexts(d) ==
    {Json("Signal", {"receiver", "data"}, p, d) : p \in PeerIds}
    \cup {Json("Signal", {"sender", "data"}, p, d) : p \in PeerIds}
    \cup {Json(v, {"id"}, p, 0) : v \in {"IdAssigned", "NewPeer", "PeerLeft"}, p \in PeerIds}
    \cup {Json("KeepAlive", {}, Local, 0), Json("garbage", {}, Local, 0)}

NoContent == Encrypt(Local, Local, Json("garbage", {}, Local, 0))

\* A relay frame as RelayMessage::from_json sees it.
RelayFrame(k, pubkey, kind, content) ==
    [k |-> k, pubkey |-> pubkey, kind |-> kind, content |-> content]

\* Kind::EncryptedDirectMessage is kind 4; 1 stands for any other kind.
EncryptedDirectMessage == 4
OtherKind == 1

\* What Signaller::next_message can return: UnknownFormat (a non-text frame),
\* another SignalingError, or a text frame: unparsable, a non-EVENT relay
\* message, or an EVENT by any author, of either kind, whose content the
\* author encrypted to us (secret {author, Local}) or that we cannot open.
NextMessageResults(d) ==
    {RelayFrame(k, Local, OtherKind, NoContent) :
        k \in {"UnknownFormat", "Error", "unparsable", "Notice", "Other"}}
    \cup {RelayFrame("Event", a, EncryptedDirectMessage, Encrypt(a, Local, pl)) :
            a \in PeerIds, pl \in Plaintexts(d)}
    \cup {RelayFrame("Event", a, OtherKind, Encrypt(a, Local, Json("NewPeer", {"id"}, a, 0))) :
            a \in PeerIds}
    \cup {RelayFrame("Event", a, EncryptedDirectMessage,
                     Encrypt(a, a, Json("NewPeer", {"id"}, a, 0))) : a \in Remotes}

\* A frame handed to Signaller::send: the REQ subscription or an EVENT with
\* its author, its "p" tag and its encrypted content.
ClientFrame(k, pubkey, ptag, content) ==
    [k |-> k, pubkey |-> pubkey, ptag |-> ptag, content |-> content]

Subscribe == ClientFrame("REQ", Local, Local, NoContent)

\* Mutation of RequestFrame: the "p" tag and the encryption name the local
\* key instead of the receiver.
RequestFrameSelfTagged(req) ==
    ClientFrame("EVENT", Local, Local, Encrypt(Local, Local, RequestToJson(req)))

\* The EVENT built for a PeerRequest::Signal taken from the request queue.
RequestFrame(req) ==
    ClientFrame("EVENT", Local, req.id, Encrypt(Local, req.id, RequestToJson(req)))

\* ------------------------------------------------------------------- Init
InitWith(inputs) ==
    /\ slState = "subscribe"
    /\ relay_sent = <<>>
    /\ inputsLeft = inputs
    /\ requests = <<>>
    /\ sigEnq = <<>>
    /\ slEos = FALSE
    /\ slLast = "none"
    /\ events = <<>>
    /\ evFrom = <<>>
    /\ firstEv = <<>>
    /\ mlState = "running"
    /\ sessions = <<>>
    /\ handshake_signals = [p \in PeerIds |-> 0]
    /\ data_channels = [p \in PeerIds |-> 0]
    /\ peer_states = <<>>
    /\ id_sent = <<>>
    /\ outq = [i \in Channels |-> <<>>]
    /\ outClosed = [i \in Channels |-> FALSE]
    /\ submitted = <<>>
    /\ delivered = <<>>

Init == InitWith(MaxInputs)

\* --------------------------------------------------------- signaling_loop
SlReturned == slState \in {"ok", "err"}
MlStopped == mlState # "running"

\* What slLast records for signaller.send(..).await: Ok or Err.
SendOutcome(ok) == IF ok THEN "Sent" ELSE "SendFailed"

\* signaller.send(subscribe.as_json()).await.map_err(..)?
SLSubscribe ==
    /\ slState = "subscribe"
    /\ relay_sent' = Append(relay_sent, Subscribe)
    /\ \E ok \in BOOLEAN :
        /\ slState' = IF ok THEN "assign" ELSE "err"
        /\ slLast' = SendOutcome(ok)
    /\ UNCHANGED <<inputsLeft, requests, sigEnq, slEos, events, evFrom, firstEv, mlVars, envVars>>

\* events_sender.unbounded_send(event).map_err(SignalingError::from)?
\* The send fails once the message loop has dropped events_receiver.
EventsSend(e, from) ==
    IF MlStopped
    THEN /\ slState' = "err"
         /\ UNCHANGED <<events, evFrom, firstEv>>
    ELSE /\ slState' = "running"
         /\ events' = Append(events, e)
         /\ evFrom' = Append(evFrom, from)
         /\ firstEv' = IF firstEv = <<>> THEN <<e>> ELSE firstEv

\* Mutation of SLAssignId: the loop is entered without announcing the identity.
SLAssignIdSkipped ==
    /\ slState = "assign"
    /\ slState' = "running"
    /\ UNCHANGED <<relay_sent, inputsLeft, requests, sigEnq, slEos, slLast, events, evFrom, firstEv,
                   mlVars, envVars>>

\* events_sender.unbounded_send(PeerEvent::IdAssigned(pub_key))
SLAssignId ==
    /\ slState = "assign"
    /\ EventsSend(IdAssigned(Local), Local)
    /\ UNCHANGED <<relay_sent, inputsLeft, requests, sigEnq, slEos, slLast, mlVars, envVars>>

\* Mutation of GoesToRelay: every request taken from the queue is published.
GoesToRelayAlways(req) == TRUE

\* `if let Some(PeerRequest::Signal { receiver, data: _ }) = &request`: only a
\* Signal request is turned into a relay EVENT.
GoesToRelay(req) == req.t = "Signal"

\* select! arm `request = requests_receiver.next().fuse()`: ready with the
\* head of the queue, or with None once every sender is gone (the message
\* loop owns requests_sender and all its clones) and the queue is empty.
SLRequest ==
    /\ slState = "running"
    /\ IF requests # <<>>
       THEN /\ requests' = Tail(requests)
            /\ IF GoesToRelay(Head(requests))
               THEN /\ relay_sent' = Append(relay_sent, RequestFrame(Head(requests)))
                    /\ \E ok \in BOOLEAN :
                        /\ slState' = IF ok THEN "running" ELSE "err"
                        /\ slLast' = SendOutcome(ok)
               ELSE /\ slLast' = Head(requests).t
                    /\ UNCHANGED <<relay_sent, slState>>
            /\ UNCHANGED slEos
       ELSE /\ MlStopped
            /\ slEos' = TRUE
            /\ slLast' = "None"
            /\ UNCHANGED <<requests, relay_sent, slState>>
    /\ UNCHANGED <<inputsLeft, sigEnq, events, evFrom, firstEv, mlVars, envVars>>

\* Mutation of InboundEvents: the content is taken as plaintext without
\* checking that decrypt succeeded.
InboundEventsUndecrypted(m) ==
    IF m.k # "Event" THEN <<>>
    ELSE IF m.pubkey = Local THEN <<>>
    ELSE IF m.kind # EncryptedDirectMessage THEN <<>>
    ELSE LET request == ParsePeerRequest(m.content.plain)
             new_peer == ParsePeerEvent(m.content.plain) IN
         IF request # <<>>
         THEN IF request[1].t = "Signal"
              THEN <<SignalEvent(m.pubkey, request[1].data)>>
              ELSE <<>>
         ELSE new_peer

\* The PeerEvents one text frame puts on the event queue: <<>> or <<event>>.
InboundEvents(m) ==
    IF m.k # "Event" THEN <<>>
    ELSE IF m.pubkey = Local THEN <<>>
    ELSE IF m.kind # EncryptedDirectMessage THEN <<>>
    ELSE LET msg == Decrypt(Local, m.pubkey, m.content) IN
         IF msg = <<>> THEN <<>>
         ELSE LET request == ParsePeerRequest(msg[1])
                  new_peer == ParsePeerEvent(msg[1]) IN
              IF request # <<>>
              THEN IF request[1].t = "Signal"
                   THEN <<SignalEvent(m.pubkey, request[1].data)>>
                   ELSE <<>>
              ELSE new_peer

\* What slLast records for one result of next_message: the error, or how far
\* the text frame gets through from_json, decrypt and the envelope parsers.
FrameClass(m) ==
    IF m.k \in {"UnknownFormat", "Error", "unparsable"} THEN m.k
    ELSE IF m.k # "Event" \/ m.pubkey = Local \/ m.kind # EncryptedDirectMessage THEN "skipped"
    ELSE IF Decrypt(Local, m.pubkey, m.content) = <<>> THEN "undecryptable"
    ELSE IF /\ ParsePeerRequest(m.content.plain) = <<>>
            /\ ParsePeerEvent(m.content.plain) = <<>> THEN "unrecognised"
    ELSE "envelope"

\* Mutation of Fatal: an error of next_message is only logged.
FatalNever(m) == FALSE

\* `Err(err) => break Err(err)`: any error other than UnknownFormat.
Fatal(m) == m.k = "Error"

\* select! arm `message = signaller.next_message().fuse()`.
SLMessage ==
    /\ slState = "running"
    /\ inputsLeft > 0
    /\ inputsLeft' = inputsLeft - 1
    /\ \E m \in NextMessageResults(MaxInputs - inputsLeft + 1) :
        /\ slLast' = FrameClass(m)
        /\ IF Fatal(m)
           THEN /\ slState' = "err"
                /\ UNCHANGED <<events, evFrom, firstEv>>
           ELSE IF m.k = "UnknownFormat" \/ InboundEvents(m) = <<>>
           THEN UNCHANGED <<slState, events, evFrom, firstEv>>
           ELSE EventsSend(InboundEvents(m)[1], m.pubkey)
    /\ UNCHANGED <<relay_sent, requests, sigEnq, slEos, mlVars, envVars>>

\* ----------------------------------------------------------- message_loop
\* The identity channel holds one value (the one-shot channel behind id_tx).
IdChanCap == 1

\* What a handshake future, and the peer loop that follows it, is doing; nch
\* is the length of the data_channels list of its HandshakeResult (0 until the
\* handshake returns).
Session(peer, role, st, rx) ==
    [peer |-> peer, role |-> role, st |-> st, rx |-> rx, nch |-> 0]

\* Lengths of HandshakeResult::data_channels a Messenger may return: one data
\* channel per entry of channel_configs, or fewer.
ChannelCounts == 1..Cardinality(Channels)

\* In-flight members of `handshakes` and unfinished members of `peer_loops`.
InHandshakes(h) == sessions[h].st = "handshake"
InPeerLoops(h) == sessions[h].st \in {"established", "ended"}

\* peer_state_tx.unbounded_send((peer, state)).expect(..); the receiver is
\* held by the socket for as long as the loop is polled.
PeerStateSend(p, st) ==
    peer_states' = Append(peer_states, <<p, st>>)

\* select! arm `_ = &mut timeout`: send KeepAlive, re-arm the timer.
\* expect("send failed") panics once signaling_loop has returned and dropped
\* requests_receiver.
MLTimeout ==
    /\ mlState = "running"
    /\ inputsLeft > 0
    /\ inputsLeft' = inputsLeft - 1
    /\ IF SlReturned
       THEN /\ mlState' = "panicked"
            /\ UNCHANGED requests
       ELSE /\ requests' = Append(requests, KeepAliveRequest)
            /\ UNCHANGED mlState
    /\ UNCHANGED <<slVars, events, evFrom, sessions, handshake_signals, data_channels,
                   peer_states, id_sent, delivered, envVars>>

\* PeerEvent::IdAssigned arm: id_tx.try_send(peer_uuid).unwrap().  The send
\* succeeds while the channel has room: always for the first IdChanCap values,
\* later only if the socket has taken a value out of it in the meantime;
\* otherwise unwrap panics.
OnIdAssigned(e) ==
    /\ \E room \in BOOLEAN :
        IF Len(id_sent) < IdChanCap \/ room
        THEN /\ id_sent' = Append(id_sent, e.id)
             /\ UNCHANGED mlState
        ELSE /\ mlState' = "panicked"
             /\ UNCHANGED id_sent
    /\ UNCHANGED <<sessions, handshake_signals, peer_states>>

\* PeerEvent::NewPeer arm: a fresh signal channel replaces any entry of
\* handshake_signals, and an offer_handshake is pushed.
OnNewPeer(e) ==
    /\ sessions' = Append(sessions, Session(e.id, "offer", "handshake", <<>>))
    /\ handshake_signals' = [handshake_signals EXCEPT ![e.id] = Len(sessions) + 1]
    /\ UNCHANGED <<mlState, peer_states, id_sent>>

\* PeerEvent::PeerLeft arm.
OnPeerLeft(e) ==
    /\ PeerStateSend(e.id, "Disconnected")
    /\ UNCHANGED <<mlState, sessions, handshake_signals, id_sent>>

\* Mutation of OnSignal: insert instead of entry().or_insert_with(): every
\* Signal pushes an accept_handshake and registers its sender.
OnSignalAlwaysAccept(e) ==
    /\ sessions' = Append(sessions, Session(e.id, "accept", "handshake", <<e.data>>))
    /\ handshake_signals' = [handshake_signals EXCEPT ![e.id] = Len(sessions) + 1]
    /\ UNCHANGED <<mlState, peer_states, id_sent>>

\* PeerEvent::Signal arm: entry(sender).or_insert_with(push accept_handshake),
\* then signal_tx.unbounded_send(data); a failed send (the handshake finished
\* and dropped its receiver) is only logged.  rx holds what reached the
\* handshake while it was in flight.
OnSignal(e) ==
    /\ IF handshake_signals[e.id] = 0
       THEN /\ sessions' = Append(sessions, Session(e.id, "accept", "handshake", <<e.data>>))
            /\ handshake_signals' = [handshake_signals EXCEPT ![e.id] = Len(sessions) + 1]
       ELSE /\ sessions' =
                 IF InHandshakes(handshake_signals[e.id])
                 THEN [sessions EXCEPT ![handshake_signals[e.id]].rx = Append(@, e.data)]
                 ELSE sessions
            /\ UNCHANGED handshake_signals
    /\ UNCHANGED <<mlState, peer_states, id_sent>>

\* select! arm `message = events_receiver.next().fuse()`: ready with the head
\* of the queue, or with None (ignored) once signaling_loop has returned and
\* the queue is empty.
MLEvent ==
    /\ mlState = "running"
    /\ IF events # <<>>
       THEN /\ events' = Tail(events)
            /\ evFrom' = Tail(evFrom)
            /\ LET event == Head(events) IN
               CASE event.t = "IdAssigned" -> OnIdAssigned(event)
                 [] event.t = "NewPeer" -> OnNewPeer(event)
                 [] event.t = "PeerLeft" -> OnPeerLeft(event)
                 [] event.t = "Signal" -> OnSignal(event)
       ELSE /\ SlReturned
            /\ UNCHANGED <<events, evFrom, mlState, sessions, handshake_signals, peer_states, id_sent>>
    /\ UNCHANGED <<slVars, requests, data_channels, delivered, inputsLeft, envVars>>

\* select! arm `handshake_result = handshakes.select_next_some()`: handshake h
\* returns its HandshakeResult; its channels are installed under its peer id,
\* Connected is reported and its peer_loop is pushed.
MLHandshakeDone(h) ==
    /\ mlState = "running"
    /\ InHandshakes(h)
    /\ data_channels' = [data_channels EXCEPT ![sessions[h].peer] = h]
    /\ PeerStateSend(sessions[h].peer, "Connected")
    /\ \E n \in ChannelCounts :
        sessions' = [sessions EXCEPT ![h].st = "established", ![h].nch = n]
    /\ UNCHANGED <<slVars, requests, events, evFrom, mlState, handshake_signals, id_sent, delivered,
                   inputsLeft, envVars>>

\* Mutation of MLPeerLoopDone: the finished peer loop is dropped unreported.
MLPeerLoopDoneSilent(h) ==
    /\ mlState = "running"
    /\ sessions[h].st = "ended"
    /\ sessions' = [sessions EXCEPT ![h].st = "closed"]
    /\ UNCHANGED <<slVars, requests, events, evFrom, mlState, handshake_signals, data_channels,
                   peer_states, id_sent, delivered, inputsLeft, envVars>>

\* select! arm `peer_uuid = peer_loops.select_next_some()`: the finished peer
\* loop h is taken out of peer_loops and Disconnected is reported.
MLPeerLoopDone(h) ==
    /\ mlState = "running"
    /\ sessions[h].st = "ended"
    /\ PeerStateSend(sessions[h].peer, "Disconnected")
    /\ sessions' = [sessions EXCEPT ![h].st = "closed"]
    /\ UNCHANGED <<slVars, requests, events, evFrom, mlState, handshake_signals, data_channels, id_sent,
                   delivered, inputsLeft, envVars>>

\* The data channel list a packet for `peer` on outbound channel `channel`
\* is indexed into: data_channels.get_mut(&peer), 0 when there is none.
DataChannelsOf(peer) == data_channels[peer]
\* Mutation of ChannelIndex: every packet goes to the peer's first channel.
ChannelIndexFirst(channel) == 0

\* .get_mut(channel_index): the position in the peer's channel list.
ChannelIndex(channel) == channel

\* Mutation of HasChannel: the index is not checked against the list.
HasChannelAlways(h, index) == TRUE

\* .get_mut(channel_index) is Some: the index is within the peer's list.
HasChannel(h, index) == index < sessions[h].nch

\* Mutation of OnOutboundClosed: closure is ignored and the loop goes on.
OnOutboundClosedIgnored == UNCHANGED mlState

\* `Some((_, None)) | None => break`: an outbound receiver reported closure.
OnOutboundClosed == mlState' = "exited"

\* select! arm `message = next_peer_message_out`: the first ready receiver i
\* of peer_messages_out_rx yields a packet, handed to the peer's data channel
\* (a missing peer or channel, or a failed send, panics), or None, and the
\* loop breaks.
MLOutbound(i) ==
    /\ mlState = "running"
    /\ IF outq[i] # <<>>
       THEN /\ outq' = [outq EXCEPT ![i] = Tail(@)]
            /\ LET peer == Head(outq[i]).peer
                   packet == Head(outq[i]).packet
                   h == DataChannelsOf(peer) IN
               IF h = 0 \/ ~HasChannel(h, ChannelIndex(i))
               THEN /\ mlState' = "panicked"
                    /\ UNCHANGED delivered
               ELSE /\ delivered' = Append(delivered,
                                      [session |-> h, channel |-> ChannelIndex(i), packet |-> packet])
                    /\ IF sessions[h].st = "established"
                       THEN UNCHANGED mlState
                       ELSE \E ok \in BOOLEAN :
                               mlState' = IF ok THEN "running" ELSE "panicked"
       ELSE /\ outClosed[i]
            /\ OnOutboundClosed
            /\ UNCHANGED <<outq, delivered>>
    /\ UNCHANGED <<slVars, requests, events, evFrom, sessions, handshake_signals, data_channels,
                   peer_states, id_sent, inputsLeft, outClosed, submitted>>

\* ------------------------------------------------------------ environment
\* A handshake in flight pushes a PeerSignal for its peer through its
\* SignalPeer (a clone of requests_sender).
HandshakeSignal(h) ==
    /\ mlState = "running"
    /\ ~SlReturned
    /\ InHandshakes(h)
    /\ inputsLeft > 0
    /\ inputsLeft' = inputsLeft - 1
    /\ LET req == SignalRequest(sessions[h].peer, Len(sigEnq) + 1) IN
       /\ requests' = Append(requests, req)
       /\ sigEnq' = Append(sigEnq, req)
    /\ UNCHANGED <<slState, relay_sent, slEos, slLast, firstEv, events, evFrom, mlVars, envVars>>

\* The session of an established peer ends: its peer_loop future is ready.
PeerSessionEnd(h) ==
    /\ mlState = "running"
    /\ sessions[h].st = "established"
    /\ sessions' = [sessions EXCEPT ![h].st = "ended"]
    /\ UNCHANGED <<slVars, requests, events, evFrom, mlState, handshake_signals, data_channels,
                   peer_states, id_sent, delivered, inputsLeft, envVars>>

\* The application sends a packet for peer p on outbound channel i.
AppSend(i, p) ==
    /\ mlState = "running"
    /\ ~outClosed[i]
    /\ inputsLeft > 0
    /\ inputsLeft' = inputsLeft - 1
    /\ outq' = [outq EXCEPT ![i] = Append(@, [peer |-> p, packet |-> Len(submitted) + 1])]
    /\ submitted' = Append(submitted, [peer |-> p, channel |-> i])
    /\ UNCHANGED <<slVars, requests, events, evFrom, mlVars, outClosed>>

\* The application drops every sender of outbound channel i.
AppCloseChannel(i) ==
    /\ ~outClosed[i]
    /\ outClosed' = [outClosed EXCEPT ![i] = TRUE]
    /\ UNCHANGED <<slVars, inputsLeft, requests, events, evFrom, mlVars, outq, submitted>>

\* ------------------------------------------------------------------- Next
Next ==
    \/ SLSubscribe
    \/ SLAssignId
    \/ SLRequest
    \/ SLMessage
    \/ MLTimeout
    \/ MLEvent
    \/ \E h \in DOMAIN sessions : MLHandshakeDone(h)
    \/ \E h \in DOMAIN sessions : MLPeerLoopDone(h)
    \/ \E i \in Channels : MLOutbound(i)
    \/ \E h \in DOMAIN sessions : HandshakeSignal(h)
    \/ \E h \in DOMAIN sessions : PeerSessionEnd(h)
    \/ \E i \in Channels, p \in PeerIds : AppSend(i, p)
    \/ \E i \in Channels : AppCloseChannel(i)

Spec == Init /\ [][Next]_vars

\* Fair selection inside each select!: an arm that stays ready is eventually
\* taken.  Handshakes, sessions and the environment are under no obligation.
LiveInit == InitWith(MaxLiveInputs)

Fairness ==
    /\ WF_vars(SLSubscribe)
    /\ WF_vars(SLAssignId)
    /\ WF_vars(SLRequest)
    /\ WF_vars(MLEvent)
    /\ \A h \in 1..MaxInputs : WF_vars(h \in DOMAIN sessions /\ MLPeerLoopDone(h))
    /\ WF_vars(\E i \in Channels : MLOutbound(i))

FairSpec == LiveInit /\ [][Next]_vars /\ Fairness

\* ----------------------------------------------------------------- claims
Reported(p, st) == {k \in DOMAIN peer_states : peer_states[k] = <<p, st>>}
NumReported(p, st) == Cardinality(Reported(p, st))

\* C1 (identity-first): the first PeerEvent ever placed on the event queue is
\* IdAssigned(local public key), whatever relay frames arrive.
IdentityFirst == firstEv # <<>> => firstEv[1] = IdAssigned(Local)

\* C1 witness: the identity was announced and a relay-borne event queued after it.
IdentityFirstWitness ==
    /\ firstEv = <<IdAssigned(Local)>>
    /\ \E k \in DOMAIN events : events[k].t \in {"NewPeer", "PeerLeft", "Signal"}

\* C2 (exactly one connect per established peer), as claimed: (p, Connected)
\* is reported at most once, and no (p, Disconnected) comes before it.
OneConnectPerPeer ==
    \A p \in PeerIds :
        /\ NumReported(p, "Connected") <= 1
        /\ \A d \in Reported(p, "Disconnected") :
              \E c \in Reported(p, "Connected") : c < d

\* The (p, Disconnected) reports that answer the (p, Connected) report at c:
\* those after it and before the next (p, Connected).
DisconnectsOf(p, c) ==
    {d \in Reported(p, "Disconnected") :
        /\ c < d
        /\ \A c2 \in Reported(p, "Connected") : c2 > c => d < c2}

\* C3, as claimed: once the completion of p's peer loop has been reported, no
\* (p, Connected) report is answered by more than one (p, Disconnected): a
\* PeerLeft(p) and the peer loop's completion never both report it.
OneDisconnectPerConnect ==
    \A p \in PeerIds :
        (\E h \in DOMAIN sessions : sessions[h].peer = p /\ sessions[h].st = "closed")
        => \A c \in Reported(p, "Connected") : Cardinality(DisconnectsOf(p, c)) <= 1

\* Lifecycle states of a PeerId as the message loop holds them.
PendingHandshake(p) ==
    \E h \in DOMAIN sessions : sessions[h].peer = p /\ InHandshakes(h)
Established(p) ==
    /\ data_channels[p] # 0
    /\ \E h \in DOMAIN sessions : sessions[h].peer = p /\ InPeerLoops(h)
Terminated(p) == NumReported(p, "Disconnected") > 0

\* C5, as claimed: no PeerId is in two of pending-handshake, established and
\* terminated at once.
OneLifecycleState ==
    \A p \in PeerIds :
        /\ ~(PendingHandshake(p) /\ Established(p))
        /\ ~(PendingHandshake(p) /\ Terminated(p))
        /\ ~(Established(p) /\ Terminated(p))

\* C6 (self-echo suppression), as claimed: no PeerEvent::Signal whose sender
\* is the local public key is ever placed on the event queue.
NoSelfSignal ==
    \A k \in DOMAIN events : ~(events[k].t = "Signal" /\ events[k].id = Local)

\* C7, as claimed: signaling_loop does not keep running after its request
\* receiver has yielded end-of-stream.
StopsAtRequestEos == slEos => slState # "running"

\* A (p, Disconnected) report is due: (p, Connected) was reported and p's peer
\* loop has completed or a PeerLeft(p) is waiting on the event queue.
DisconnectDue(p) ==
    /\ NumReported(p, "Connected") > 0
    /\ \/ \E h \in DOMAIN sessions : sessions[h].peer = p /\ sessions[h].st = "ended"
       \/ \E k \in DOMAIN events : events[k] = PeerLeft(p)

\* C4 (eventual disconnect): under fair selection, whenever a (p, Disconnected)
\* report is due while the message loop is running, a further (p, Disconnected)
\* is reported, unless the loop ends first.
EventualDisconnect ==
    \A p \in PeerIds : \A n \in 0..MaxLiveInputs :
        (mlState = "running" /\ DisconnectDue(p) /\ NumReported(p, "Disconnected") = n)
        ~> (NumReported(p, "Disconnected") > n \/ MlStopped)

\* C4 witness: a peer loop completed, and its Disconnected followed its Connected.
EventualDisconnectWitness ==
    \E h \in DOMAIN sessions :
        /\ sessions[h].st = "closed"
        /\ mlState = "running"
        /\ \E c \in Reported(sessions[h].peer, "Connected") :
              DisconnectsOf(sessions[h].peer, c) # {}

AllOutboundClosed == \A i \in Channels : outClosed[i]

\* C8 (socket drop terminates the message loop): under fair selection, once
\* every outbound channel is closed the message loop ends, whatever handshakes,
\* peer loops, queued events or timer are pending; and once it has ended it
\* reports no peer state, hands no packet to a data channel, queues no request,
\* publishes no identity and takes nothing more from its queues.
SocketDropStopsMessageLoop ==
    /\ AllOutboundClosed ~> MlStopped
    /\ [][MlStopped =>
            /\ mlState' = mlState
            /\ peer_states' = peer_states
            /\ delivered' = delivered
            /\ sessions' = sessions
            /\ Len(requests') <= Len(requests)
            /\ id_sent' = id_sent
            /\ events' = events
            /\ outq' = outq]_vars

\* C8 witness: the loop exited on closure with a handshake in flight, a peer
\* loop running and a signaling event still queued.
SocketDropWitness ==
    /\ mlState = "exited"
    /\ AllOutboundClosed
    /\ events # <<>>
    /\ \E h \in DOMAIN sessions : InHandshakes(h) \/ InPeerLoops(h)

\* Where the application sent packet k.
Target(k) == submitted[k]
DeliveredPackets == {delivered[a].packet : a \in DOMAIN delivered}
QueuedPackets(i) == {outq[i][j].packet : j \in DOMAIN outq[i]}

SentEvents == SelectSeq(relay_sent, LAMBDA f : f.k = "EVENT")
PendingSignals == SelectSeq(requests, LAMBDA r : r.t = "Signal")

\* C10 (outbound signaling order and count): the EVENT frames handed to the
\* relay are, one for one and in order, the Signal requests put on the request
\* queue so far that are no longer waiting on it; each is authored by the local
\* key, tagged with and encrypted to its request's receiver, and carries that
\* request; the only other frame is the initial subscription.
OutboundSignalOrder ==
    /\ Len(SentEvents) + Len(PendingSignals) = Len(sigEnq)
    /\ \A k \in DOMAIN SentEvents :
        /\ SentEvents[k].pubkey = Local
        /\ SentEvents[k].ptag = sigEnq[k].id
        /\ Decrypt(sigEnq[k].id, Local, SentEvents[k].content) # <<>>
        /\ ParsePeerRequest(SentEvents[k].content.plain) = <<sigEnq[k]>>
    /\ \A k \in DOMAIN PendingSignals : PendingSignals[k] = sigEnq[Len(SentEvents) + k]
    /\ \A k \in DOMAIN relay_sent : relay_sent[k].k = "REQ" <=> k = 1

\* C10 witness: two Signal requests of a handshake went out as two EVENTs.
OutboundSignalWitness ==
    /\ Len(SentEvents) = 2
    /\ inputsLeft = 0

\* C11 (keep-alives never reach the wire): the step that takes a KeepAlive
\* off the request queue hands no frame to the relay, places no PeerEvent on
\* the event queue and leaves the loop running; and the frames handed to the
\* relay are the subscription, first, and then exactly one EVENT carrying a
\* Signal request for each Signal request taken off the queue.
KeepAlivesOffTheWire ==
    /\ [][(Len(requests') < Len(requests) /\ Head(requests).t = "KeepAlive")
            => /\ relay_sent' = relay_sent
               /\ events' = events
               /\ firstEv' = firstEv
               /\ slState' = slState]_vars
    /\ [](\A k \in DOMAIN relay_sent :
            IF k = 1 THEN relay_sent[k] = Subscribe
            ELSE /\ relay_sent[k].k = "EVENT"
                 /\ ParsePeerRequest(relay_sent[k].content.plain) # <<>>
                 /\ ParsePeerRequest(relay_sent[k].content.plain)[1].t = "Signal")
    /\ [](Len(relay_sent) <= 1 + Len(sigEnq) - Len(PendingSignals))

\* C11 witness: the loop's latest request was a KeepAlive, taken after a
\* Signal request had gone out, and only that one EVENT was ever sent.
KeepAlivesWitness ==
    /\ slLast = "KeepAlive"
    /\ slState = "running"
    /\ requests = <<>>
    /\ Len(sigEnq) = 1
    /\ Len(relay_sent) = 2

\* Frames the signaling loop must shrug off: text that RelayMessage::from_json
\* rejects, content that decrypt rejects, plaintext that is neither envelope.
HostileClasses == {"unparsable", "undecryptable", "unrecognised"}

\* C12 (hostile-traffic isolation): the step in which next_message yields a
\* frame that fails to parse, cannot be decrypted or decrypts to neither a
\* PeerRequest nor a PeerEvent places no PeerEvent on the event queue, sends
\* nothing, and leaves the signaling loop running, ready for later requests
\* and frames.
HostileTrafficIsolated ==
    [][(/\ slState = "running"
        /\ inputsLeft' < inputsLeft
        /\ UNCHANGED <<requests, outq, mlState>>
        /\ slLast' \in HostileClasses)
        => /\ events' = events
           /\ firstEv' = firstEv
           /\ relay_sent' = relay_sent
           /\ slState' = "running"]_vars

\* C12 witness: the last of several frames was hostile and the loop is still
\* running, with the events of the earlier frames queued.
HostileTrafficWitness ==
    /\ slLast \in HostileClasses
    /\ slState = "running"
    /\ inputsLeft = 0
    /\ Len(events) = MaxInputs

\* C13 (role assignment): the step that takes an event off the event queue
\* pushes an offer handshake for p when the event is NewPeer(p); pushes an
\* accept handshake for s, registered for s and fed the signal's data, when it
\* is a Signal from an s with no handshake_signals entry; and when it is a
\* Signal from an s with an entry, pushes nothing, keeps the entry and appends
\* the data to the signal queue of the handshake registered for s (the send
\* fails, and the data is dropped, once that handshake has returned).  So an
\* accept handshake for s is never preceded by any handshake for s, and every
\* handshake receives its signals in arrival order.
RoleAssignment ==
    /\ [][Len(events') < Len(events) =>
            LET e == Head(events)
                reg == handshake_signals[e.id] IN
            CASE e.t = "NewPeer" ->
                    sessions' = Append(sessions, Session(e.id, "offer", "handshake", <<>>))
              [] e.t = "Signal" /\ reg = 0 ->
                    /\ sessions' = Append(sessions, Session(e.id, "accept", "handshake", <<e.data>>))
                    /\ handshake_signals'[e.id] = Len(sessions')
              [] e.t = "Signal" /\ reg # 0 ->
                    /\ handshake_signals' = handshake_signals
                    /\ Len(sessions') = Len(sessions)
                    /\ \A h \in DOMAIN sessions :
                          sessions'[h] =
                            IF h = reg /\ InHandshakes(h)
                            THEN [sessions[h] EXCEPT !.rx = Append(@, e.data)]
                            ELSE sessions[h]
              [] OTHER ->
                    /\ sessions' = sessions
                    /\ handshake_signals' = handshake_signals]_vars
    /\ [](\A h \in DOMAIN sessions :
            /\ sessions[h].role = "accept" =>
                  \A g \in 1..(h - 1) : sessions[g].peer # sessions[h].peer
            /\ \A i, j \in DOMAIN sessions[h].rx :
                  i < j => sessions[h].rx[i] < sessions[h].rx[j])

\* C13 witness: an accept handshake that was started by a first Signal and
\* fed a later one, and an offer handshake started by a NewPeer.
RoleAssignmentWitness ==
    \E h, g \in DOMAIN sessions :
        /\ sessions[h].role = "accept"
        /\ Len(sessions[h].rx) = 2
        /\ sessions[g].role = "offer"

\* The handshake futures in `handshakes` whose peer is p.
HandshakesFor(p) == {h \in DOMAIN sessions : sessions[h].peer = p /\ InHandshakes(h)}

\* C14, as claimed: `handshakes` never holds two handshake futures for one
\* PeerId, and the sender registered for the peer of an in-flight handshake is
\* the one paired with that handshake's receiver (never replaced or dropped).
OneHandshakePerPeer ==
    \A p \in PeerIds :
        /\ Cardinality(HandshakesFor(p)) <= 1
        /\ \A h \in HandshakesFor(p) : handshake_signals[p] = h

\* C15, as claimed: while a handshake is in flight, handshake_signals has an
\* entry for its peer and the entry is the sender paired with that handshake's
\* own peer_signal_rx.
HandshakeSignalsRetained ==
    \A h \in DOMAIN sessions :
        InHandshakes(h) => handshake_signals[sessions[h].peer] = h

\* C16 (sender authenticity), as claimed: every PeerEvent::Signal on the event
\* queue names as sender the pubkey of the relay event that carried it.
SenderAuthentic ==
    \A k \in DOMAIN events :
        events[k].t = "Signal" => events[k].id = evFrom[k]

\* C17, as claimed: at most one value is ever published on the identity
\* channel, and it is the local public key.
IdentityOnlyLocal ==
    /\ Len(id_sent) <= 1
    /\ \A k \in DOMAIN id_sent : id_sent[k] = Local

\* C18 (Signaller error handling): the step in which next_message returns
\* UnknownFormat leaves the signaling loop running and sends and emits
\* nothing; the step in which next_message returns another error, or in which
\* send returns an error, ends the loop with Err; and once the loop has
\* returned Err it stays returned, hands no further frame to the relay and
\* places no further PeerEvent on the event queue.
SignallerErrorHandling ==
    /\ [][(/\ slState = "running"
            /\ inputsLeft' < inputsLeft
            /\ UNCHANGED <<requests, outq, mlState>>
            /\ slLast' \in {"UnknownFormat", "Error"})
            => /\ slState' = IF slLast' = "Error" THEN "err" ELSE "running"
               /\ events' = events
               /\ relay_sent' = relay_sent]_vars
    /\ [][(Len(relay_sent') > Len(relay_sent) /\ slLast' = "SendFailed")
            => slState' = "err"]_vars
    /\ [][slState = "err"
            => /\ slState' = "err"
               /\ relay_sent' = relay_sent
               /\ Len(events') <= Len(events)
               /\ firstEv' = firstEv
               /\ Len(requests') >= Len(requests)]_vars

\* C18 witness: next_message returned an error and the loop returned Err,
\* with a request still queued and relay input still to come.
SignallerErrorWitness ==
    /\ slLast = "Error"
    /\ slState = "err"
    /\ requests # <<>>
    /\ inputsLeft > 0

\* C19 (packets to unknown peers or channels abort): the step that takes a
\* packet off an outbound queue aborts the message loop, handing nothing to a
\* data channel, when data_channels has no entry for the packet's peer or the
\* entry has no channel at the queue's index, and otherwise hands the packet
\* to a data channel; and every peer reported Connected has an entry in
\* data_channels, so a packet for it is never refused for a missing entry.
UnknownPeerAborts ==
    /\ [][\A i \in Channels :
            (mlState = "running" /\ outq[i] # <<>> /\ outq'[i] = Tail(outq[i])) =>
                LET peer == Head(outq[i]).peer
                    h == data_channels[peer] IN
                IF h = 0 \/ i >= sessions[h].nch
                THEN mlState' = "panicked" /\ delivered' = delivered
                ELSE Len(delivered') = Len(delivered) + 1]_vars
    /\ [](\A p \in PeerIds : NumReported(p, "Connected") > 0 => data_channels[p] # 0)

\* C19 witness: one packet was handed to a connected peer's data channel, and
\* a packet for a peer never reported Connected was taken and aborted the loop.
UnknownPeerWitness ==
    /\ mlState = "panicked"
    /\ Len(delivered) = 1
    /\ \E k \in DOMAIN submitted :
        /\ NumReported(Target(k).peer, "Connected") = 0
        /\ data_channels[Target(k).peer] = 0
        /\ k \notin DeliveredPackets
        /\ k \notin QueuedPackets(Target(k).channel)

\* C20, as claimed: the message loop has exited on outbound closure only if
\* every outbound channel is closed.
ExitsOnlyWhenAllClosed == mlState = "exited" => AllOutboundClosed

====
